---- MODULE Spec2Model ----
(***************************************************************************)
(* Model of src/LoadBalancer.py: a reverse-proxying load balancer with a   *)
(* roster of backends, per-backend in-flight counts and health flags, a    *)
(* health-check loop, management add/remove with persistence, and the      *)
(* proxy middleware with its retry loop.                                   *)
(*                                                                         *)
(* The program runs on one asyncio event loop: code between two awaits is  *)
(* atomic.  asyncio.Lock.acquire() does not suspend when the lock is free, *)
(* so a critical section without an await in its body is one step, enabled *)
(* when the lock is free.  The only critical sections that keep the lock   *)
(* across an await are add_server/remove_server (await save_backends).     *)
(* A task that needs the lock while one of them holds it waits in a state  *)
(* of its own (pc "finally", ppc "snapshot" / "update").                   *)
(*                                                                         *)
(* Spec is the whole program; SpecProxy is the program with a Persister    *)
(* whose writes succeed (every action but SaveFail).  SpecRegistry is      *)
(* SpecProxy serving one proxied request, started on more kinds of         *)
(* backends.json (truncated, unparseable, repeated urls) and restarted.    *)
(* SpecPersist is the registry with a Persister whose saves may raise,     *)
(* started on any backends.json (ill-shaped ones included).  SpecForward   *)
(* serves one request of any path and query, whose upstream answers with   *)
(* any of the header lists.  SpecShutdown adds the lifespan shutdown,      *)
(* SpecLive is the program under fair scheduling, and SpecHealth is the    *)
(* program with a health-check loop that does not end.                     *)
(***************************************************************************)
EXTENDS Integers, Sequences, FiniteSets, TLC

\* ---------------------------------------------------------------- bounds
\* proxied requests served (each by its own task; they may all overlap)
NumRequests == 2
\* add/remove calls that change the roster
MaxMutations == 2
\* passes of the while loop of health_check_loop
MaxProbeCycles == 2
\* restarts of the process
MaxRestarts == 1

\* ---------------------------------------------------------- input domains
Requests == 1..NumRequests
\* the urls of the management calls and of the persisted file
Urls == {"a", "b"}
\* the status codes an upstream answers with
UpstreamStatuses == {200, 404}

\* the paths of the requests: a path is the sequence of its pieces, so that
\* a prefix of the string is a prefix of the sequence ("/serversx" is
\* <<"/servers", "x">>)
Paths == { <<"/servers">>, <<"/servers", "/x">>, <<"/servers", "x">>,
           <<"/queue-lengths">>, <<"/queue-lengths", "/x">>, <<"/api">> }
\* the raw query strings of the requests (<<>>: the request has none)
Queries == { <<>>, <<"k=v">> }
\* the path and the query of the requests of the specifications that do not
\* draw them
ProxiedPath == <<"/api">>
NoQuery == <<>>
\* the header fields of upstream responses, in the order received
PlainHeaders ==
    << [name |-> "Content-Type", value |-> <<"text/plain">>],
       [name |-> "Content-Length", value |-> <<"5">>] >>
ResponseHeaders ==
    { PlainHeaders,
      << [name |-> "content-length", value |-> <<"5">>],
         [name |-> "X-Id", value |-> <<"7">>],
         [name |-> "CONNECTION", value |-> <<"close">>] >>,
      << [name |-> "Set-Cookie", value |-> <<"a=1">>],
         [name |-> "Transfer-Encoding", value |-> <<"chunked">>],
         [name |-> "Set-Cookie", value |-> <<"b=2">>] >> }

\* ------------------------------------------------------ program constants
max_retries == 3

VARIABLES
    phase,          \* "init" before lifespan startup, then "running" ("failed"
                    \* when the startup raised), "stopping" from task.cancel()
                    \* of the lifespan shutdown, "stopped" after client.aclose()
    backends,       \* list[str]
    queue_counts,   \* dict[str, int]
    health_status,  \* dict[str, bool]
    lock,           \* "free", or "mgmt" while add/remove awaits save_backends
    file,           \* content of backends.json
    pc,             \* per request: position in load_balancer
    target,         \* per request: the local variable target ("" before select)
    attempt,        \* per request: the loop variable attempt (0 before the loop)
    exit,           \* per request waiting in the finally: how the try is being left
    got,            \* per request: resp.status_code of the upstream headers (0: none)
    failed,         \* per request (history): attempts ended by an httpx.RequestError
    status,         \* per request: status_code of the StreamingResponse returned (0: none)
    outcome,        \* per request: how the handler ended
    released,       \* per request (history): decrements executed by its finally
    ppc,            \* position of health_check_loop ("unstarted" before lifespan)
    targets,        \* health_check_loop: the snapshot list
    pidx,           \* health_check_loop: index of url in targets (1-based)
    pok,            \* health_check_loop: the local variable ok
    mpc,            \* management call: "idle", or "saving" in save_backends
    mutations,      \* add/remove calls that changed the roster so far
    cycles,         \* passes of the while loop of health_check_loop so far
    pstale,         \* (history) the url of the client.get in flight was added
                    \* by add_server after that client.get was issued
    restarts,       \* restarts of the process so far
    lastsave,       \* (history) how the last save_backends call ended:
                    \* "none", "failed" (it raised), "ok", or
                    \* "ok-after-failure" (ok, an earlier call having failed)
    saves,          \* save_backends calls in progress
    path,           \* per request: request.url.path, a sequence of pieces
    query,          \* per request: request.url.query, a sequence of pieces
    sent,           \* per request: the url given to client.stream by the
                    \* attempt in progress (<<>>: none)
    resp_headers,   \* per request: the header fields of the upstream response
    filtered_headers \* per request: the local variable filtered_headers

regVars == <<backends, queue_counts, health_status>>
reqVars == <<pc, target, attempt, exit, got, failed, status, outcome, released,
             path, query, sent, resp_headers, filtered_headers>>
probeVars == <<ppc, targets, pidx, pok, cycles, pstale>>
mgmtVars == <<mpc, mutations, lastsave, saves>>
vars == <<phase, backends, queue_counts, health_status, lock, file,
          pc, target, attempt, exit, got, failed, status, outcome, released,
          ppc, targets, pidx, pok, mpc, mutations, cycles, pstale, restarts,
          lastsave, saves, path, query, sent, resp_headers, filtered_headers>>

\* ------------------------------------------------------------- helpers
EmptyDict == [u \in {} |-> 0]

\* d[k] = v on a dict (insert or overwrite)
DictSet(d, k, v) == [u \in (DOMAIN d) \cup {k} |-> IF u = k THEN v ELSE d[u]]

\* a mutant of DictPop: the entry is kept
DictKeep(d, k) == d

\* d.pop(k, None)
DictPop(d, k) == [u \in (DOMAIN d) \ {k} |-> d[u]]

\* d.get(k) used as a truth value: a missing key gives None, which is falsy
DictGetTruthy(d, k) == k \in DOMAIN d /\ d[k]

\* list.remove(x): deletes the first occurrence
RECURSIVE ListRemove(_, _)
ListRemove(s, x) ==
    IF s = <<>> THEN <<>>
    ELSE IF Head(s) = x THEN Tail(s)
    ELSE <<Head(s)>> \o ListRemove(Tail(s), x)

\* ------------------------------------------------------- persistence
\* backends.json is absent, or it holds a text.  A text is a sequence of
\* JSON tokens: the punctuation marks and the string literals (a string
\* literal is written by its value: json.dumps escapes it and json.loads
\* unescapes it, token by token).
JsonPunctuation == {"{", "}", "[", "]", ":", ","}

\* the elements of a JSON array, separated by commas
RECURSIVE JoinItems(_)
JoinItems(bs) ==
    IF bs = <<>> THEN <<>>
    ELSE IF Len(bs) = 1 THEN <<bs[1]>>
    ELSE <<bs[1], ",">> \o JoinItems(Tail(bs))

\* json.dumps({"backends": backends}, indent=2)
json_dumps(bs) == <<"{", "backends", ":", "[">> \o JoinItems(bs) \o <<"]", "}">>

\* the elements between the brackets of a non-empty JSON array of strings;
\* ok is FALSE where json.loads raises
RECURSIVE ParseItems(_)
ParseItems(ts) ==
    IF ts = <<>> \/ Head(ts) \in JsonPunctuation
    THEN [ok |-> FALSE, items |-> <<>>]
    ELSE IF Len(ts) = 1 THEN [ok |-> TRUE, items |-> <<ts[1]>>]
    ELSE IF ts[2] # "," THEN [ok |-> FALSE, items |-> <<>>]
    ELSE LET rest == ParseItems(SubSeq(ts, 3, Len(ts)))
         IN [ok |-> rest.ok, items |-> <<ts[1]>> \o rest.items]

\* the tokens of JSON values that are neither strings, arrays nor objects
JsonScalars == {"null", "5"}

\* the characters of a string, which is what iterating over a str yields
StringChars(str) == IF str = "ab" THEN <<"a", "b">> ELSE <<str>>

\* json.loads(data).get("backends", []): ok is FALSE where the expression
\* raises (json.loads rejects the text, or the document is not an object and
\* has no get).  items is what iterating over the value yields: the elements
\* of an array, the characters of a string, nothing for the default [] of an
\* object without the key "backends", and nothing for a number or null
\* (which cannot be iterated: see extend_raises).
json_loads(text) ==
    LET n == Len(text)
        v == IF n >= 5 THEN SubSeq(text, 4, n - 1) ELSE <<>>
    IN IF text = <<"{", "}">> THEN [ok |-> TRUE, items |-> <<>>]
       ELSE IF /\ n >= 5
               /\ SubSeq(text, 1, 3) = <<"{", "backends", ":">>
               /\ text[n] = "}"
       THEN IF v = <<"[", "]">> THEN [ok |-> TRUE, items |-> <<>>]
            ELSE IF Len(v) >= 3 /\ v[1] = "[" /\ v[Len(v)] = "]"
            THEN ParseItems(SubSeq(v, 2, Len(v) - 1))
            ELSE IF Len(v) = 1 /\ v[1] \notin JsonPunctuation
            THEN [ok |-> TRUE,
                  items |-> IF v[1] \in JsonScalars THEN <<>> ELSE StringChars(v[1])]
            ELSE [ok |-> FALSE, items |-> <<>>]
       ELSE [ok |-> FALSE, items |-> <<>>]

AbsentFile == [exists |-> FALSE, text |-> <<>>]
\* open(..., "w") has truncated the file and nothing was written
GarbageFile == [exists |-> TRUE, text |-> <<>>]
JsonFile(bs) == [exists |-> TRUE, text |-> json_dumps(bs)]

\* a mutant of load_backends: the list is read back to front
load_backends_reversed(f) ==
    LET p == json_loads(f.text)
    IN IF f.exists /\ p.ok
       THEN [i \in 1..Len(p.items) |-> p.items[Len(p.items) + 1 - i]]
       ELSE <<>>

\* load_backends: any failure (no file, json.loads raising) is swallowed and
\* gives []
load_backends(f) ==
    LET p == json_loads(f.text)
    IN IF f.exists /\ p.ok THEN p.items ELSE <<>>

\* load_backends logs its warning in the except clause only
load_warns(f) == ~f.exists \/ ~json_loads(f.text).ok

\* backends.extend(loaded) raises TypeError when load_backends returned a
\* number or None (the value of "backends" in the file)
extend_raises(f) ==
    /\ f.exists
    /\ Len(f.text) = 5
    /\ SubSeq(f.text, 1, 3) = <<"{", "backends", ":">>
    /\ f.text[4] \in JsonScalars
    /\ f.text[5] = "}"

\* a mutant of save_backends: the last url is not written
save_backends_short(bs) ==
    IF bs = <<>> THEN JsonFile(bs) ELSE JsonFile(SubSeq(bs, 1, Len(bs) - 1))

\* save_backends: json.dumps({"backends": backends}) replaces the content
save_backends(bs) == JsonFile(bs)

\* the file at the start of the proxy runs: none, or a roster of two
InitialFiles == {AbsentFile, JsonFile(<<"a", "b">>)}

\* the file at the start of the registry runs: also a truncated file, a text
\* json.loads rejects, and rosters with a repeated url
RegistryFiles ==
    InitialFiles \cup
    { GarbageFile,
      [exists |-> TRUE, text |-> <<"{", "backends", ":", "[", "a", ",", "]", "}">>],
      JsonFile(<<"b", "a">>),
      JsonFile(<<"a", "a">>),
      JsonFile(<<"a", "b", "a">>) }

\* the file at the start of the persistence runs: also a JSON document that
\* is not an object, an object without the key "backends", and objects whose
\* "backends" is null, a number, a string or an array of numbers
StartupFiles ==
    RegistryFiles \cup
    { [exists |-> TRUE, text |-> <<"[", "]">>],
      [exists |-> TRUE, text |-> <<"{", "}">>],
      [exists |-> TRUE, text |-> <<"{", "backends", ":", "null", "}">>],
      [exists |-> TRUE, text |-> <<"{", "backends", ":", "5", "}">>],
      [exists |-> TRUE, text |-> <<"{", "backends", ":", "ab", "}">>],
      [exists |-> TRUE, text |-> <<"{", "backends", ":", "[", "5", "]", "}">>] }

\* ------------------------------------------------------------ selection
\* a mutant of Available: the health flag is not consulted
AvailableAny(bs, hs) == bs

\* available = [u for u in backends if health_status.get(u)]
Available(bs, hs) == SelectSeq(bs, LAMBDA u: DictGetTruthy(hs, u))

\* a mutant of MinByCount: ties go to the latest-inserted backend
MinByCountLast(avail, qc) ==
    LET i == CHOOSE i \in 1..Len(avail):
                 /\ \A j \in 1..Len(avail): qc[avail[i]] <= qc[avail[j]]
                 /\ \A j \in (i+1)..Len(avail): qc[avail[j]] > qc[avail[i]]
    IN avail[i]

\* min(available, key=lambda u: queue_counts[u]): the first minimal element
MinByCount(avail, qc) ==
    LET i == CHOOSE i \in 1..Len(avail):
                 /\ \A j \in 1..Len(avail): qc[avail[i]] <= qc[avail[j]]
                 /\ \A j \in 1..(i-1): qc[avail[j]] > qc[avail[i]]
    IN avail[i]

\* ----------------------------------------------------------------- Init
\* the module-level state of a process that has just been started (the
\* request, management and budget variables are at their start values)
InitState ==
    /\ phase = "init"
    /\ backends = <<>>
    /\ queue_counts = EmptyDict
    /\ health_status = EmptyDict
    /\ lock = "free"
    /\ pc = [r \in Requests |-> "received"]
    /\ target = [r \in Requests |-> ""]
    /\ attempt = [r \in Requests |-> 0]
    /\ exit = [r \in Requests |-> "none"]
    /\ got = [r \in Requests |-> 0]
    /\ failed = [r \in Requests |-> 0]
    /\ status = [r \in Requests |-> 0]
    /\ outcome = [r \in Requests |-> "none"]
    /\ released = [r \in Requests |-> 0]
    /\ ppc = "unstarted"
    /\ targets = <<>>
    /\ pidx = 0
    /\ pok = FALSE
    /\ mpc = "idle"
    /\ mutations = 0
    /\ cycles = 0
    /\ pstale = FALSE
    /\ restarts = 0
    /\ lastsave = "none"
    /\ saves = 0
    /\ sent = [r \in Requests |-> <<>>]
    /\ resp_headers = [r \in Requests |-> <<>>]
    /\ filtered_headers = [r \in Requests |-> <<>>]

\* the requests are proxied requests without a query
InitMemory ==
    /\ InitState
    /\ path = [r \in Requests |-> ProxiedPath]
    /\ query = [r \in Requests |-> NoQuery]

Init == InitMemory /\ file \in InitialFiles

\* ------------------------------------------------------------- lifespan
RECURSIVE InitEntries(_, _, _)
InitEntries(d, bs, v) ==
    IF bs = <<>> THEN d ELSE InitEntries(DictSet(d, Head(bs), v), Tail(bs), v)

\* lifespan startup: load, extend, zero the counts, clear the health flags,
\* create the health-check task (it has not run yet: ppc "sleeping" with no
\* cycle made is the task about to enter its while loop)
Lifespan ==
    /\ phase = "init"
    /\ IF extend_raises(file)
       THEN \* the TypeError leaves lifespan: the application does not start
            /\ phase' = "failed"
            /\ UNCHANGED <<backends, queue_counts, health_status, ppc>>
       ELSE /\ LET loaded == load_backends(file)
                   bs == backends \o loaded
               IN /\ backends' = bs
                  /\ queue_counts' = InitEntries(queue_counts, bs, 0)
                  /\ health_status' = InitEntries(health_status, bs, FALSE)
            /\ phase' = "running"
            /\ ppc' = "sleeping"
    /\ UNCHANGED <<lock, file, targets, pidx, pok, cycles, pstale, restarts>>
    /\ UNCHANGED reqVars
    /\ UNCHANGED mgmtVars

\* ------------------------------------------------------ health_check_loop
\* The loop suspends at client.get and at asyncio.sleep, and at a lock
\* acquisition only when add_server or remove_server holds the lock (ppc
\* "snapshot" / "update" are those waits).

\* a mutant of ProberLive: the task goes on after task.cancel()
ProberLiveCancelled == phase \in {"running", "stopping"}

\* the task resumes at its await: it has been created, and task.cancel() has
\* not been called (after it the await raises CancelledError instead)
ProberLive == phase = "running"

\* the passes of the while loop are counted up to MaxProbeCycles
CountCycle(c) == IF c < MaxProbeCycles THEN c + 1 ELSE c

\* async with lock: targets = list(backends); then the first client.get, or
\* the sleep when the list is empty
TakeSnapshot ==
    /\ cycles' = CountCycle(cycles)
    /\ targets' = backends
    /\ pidx' = IF backends = <<>> THEN 0 ELSE 1
    /\ ppc' = IF backends = <<>> THEN "sleeping" ELSE "probing"
    /\ UNCHANGED <<pok, pstale>>

\* async with lock: health_status[url] = ok; then the next url, or sleep(5).
\* targets, pidx and ok are dead once written; they are cleared here.
StoreHealth(ok) ==
    /\ health_status' = DictSet(health_status, targets[pidx], ok)
    /\ IF pidx < Len(targets)
       THEN /\ pidx' = pidx + 1
            /\ ppc' = "probing"
            /\ UNCHANGED targets
       ELSE /\ pidx' = 0
            /\ targets' = <<>>
            /\ ppc' = "sleeping"
    /\ pok' = FALSE
    /\ pstale' = FALSE

\* the task starts, or asyncio.sleep(5) returns: the top of the while True
\* loop
ProbeLoop ==
    /\ ProberLive
    /\ ppc = "sleeping"
    /\ IF lock = "free"
       THEN TakeSnapshot
       ELSE /\ ppc' = "snapshot"
            /\ UNCHANGED <<targets, pidx, pok, cycles, pstale>>
    /\ UNCHANGED <<phase, restarts, lock, file>>
    /\ UNCHANGED regVars
    /\ UNCHANGED reqVars
    /\ UNCHANGED mgmtVars

\* ProbeLoop for MaxProbeCycles passes
ProbeWake == cycles < MaxProbeCycles /\ ProbeLoop

\* the lock the snapshot waited for is free again
ProbeSnapshot ==
    /\ ProberLive
    /\ ppc = "snapshot"
    /\ lock = "free"
    /\ TakeSnapshot
    /\ UNCHANGED <<phase, restarts, lock, file>>
    /\ UNCHANGED regVars
    /\ UNCHANGED reqVars
    /\ UNCHANGED mgmtVars

\* resp = await client.get(..., timeout=2.0); ok = resp.status_code == 200;
\* an exception gives ok = False.  The probe's answer is an input: code is
\* 0 for a transport error or a timeout.
ProbeCodes == {0, 200, 500}
\* a mutant of ProbeOk: no answer counts as healthy
ProbeOkNever(code) == FALSE
\* a mutant of ProbeOk: any response counts as healthy
ProbeOkAnyResponse(code) == code # 0
ProbeOk(code) == code = 200

ProbeGet(code) ==
    /\ ProberLive
    /\ ppc = "probing"
    /\ IF lock = "free"
       THEN /\ StoreHealth(ProbeOk(code))
       ELSE /\ pok' = ProbeOk(code)
            /\ ppc' = "update"
            /\ UNCHANGED <<health_status, targets, pidx, pstale>>
    /\ UNCHANGED <<phase, restarts, lock, file, backends, queue_counts, cycles>>
    /\ UNCHANGED reqVars
    /\ UNCHANGED mgmtVars

\* the lock the health update waited for is free again
ProbeUpdate ==
    /\ ProberLive
    /\ ppc = "update"
    /\ lock = "free"
    /\ StoreHealth(pok)
    /\ UNCHANGED <<phase, restarts, lock, file, backends, queue_counts, cycles>>
    /\ UNCHANGED reqVars
    /\ UNCHANGED mgmtVars

\* ------------------------------------------------------- management API
\* a mutant of MgmtLockFree: the handlers do not take the lock
MgmtLockSkipped == TRUE

\* async with lock in add_server and remove_server: the handler goes on when
\* the lock is free (a call that finds it held waits, having done nothing)
MgmtLockFree == lock = "free"

\* add_server, up to the await of save_backends; for a url already present
\* the body of the if is skipped and the call returns at once
AddServer(url) ==
    /\ phase = "running"
    /\ MgmtLockFree
    /\ IF url \notin DOMAIN queue_counts
       THEN /\ mutations < MaxMutations
            /\ mutations' = mutations + 1
            /\ backends' = Append(backends, url)
            /\ queue_counts' = DictSet(queue_counts, url, 0)
            /\ health_status' = DictSet(health_status, url, FALSE)
            /\ lock' = "mgmt"
            /\ mpc' = "saving"
            /\ saves' = saves + 1
            /\ pstale' = (pstale \/ (ppc = "probing" /\ targets[pidx] = url))
       ELSE /\ UNCHANGED regVars
            /\ UNCHANGED <<lock, mpc, mutations, pstale, saves>>
    /\ UNCHANGED <<phase, restarts, file, lastsave>>
    /\ UNCHANGED reqVars
    /\ UNCHANGED <<ppc, targets, pidx, pok, cycles>>

\* remove_server, up to the await of save_backends
RemoveServer(url) ==
    /\ phase = "running"
    /\ MgmtLockFree
    /\ IF url \in DOMAIN queue_counts
       THEN /\ mutations < MaxMutations
            /\ mutations' = mutations + 1
            /\ backends' = ListRemove(backends, url)
            /\ queue_counts' = DictPop(queue_counts, url)
            /\ health_status' = DictPop(health_status, url)
            /\ lock' = "mgmt"
            /\ mpc' = "saving"
            /\ saves' = saves + 1
       ELSE /\ UNCHANGED regVars
            /\ UNCHANGED <<lock, mpc, mutations, saves>>
    /\ UNCHANGED <<phase, restarts, file, lastsave>>
    /\ UNCHANGED reqVars
    /\ UNCHANGED probeVars

\* save_backends completes; the lock is released and the call returns
SaveOk ==
    /\ mpc = "saving"
    /\ file' = save_backends(backends)
    /\ lock' = "free"
    /\ mpc' = "idle"
    /\ saves' = saves - 1
    /\ lastsave' = IF lastsave \in {"failed", "ok-after-failure"}
                   THEN "ok-after-failure" ELSE "ok"
    /\ UNCHANGED <<phase, restarts, mutations>>
    /\ UNCHANGED regVars
    /\ UNCHANGED reqVars
    /\ UNCHANGED probeVars

\* a mutant of LockAfterRaise: the lock stays held
LockHeldAfterRaise == "mgmt"

\* the exception leaves the async with lock, whose exit releases the lock
LockAfterRaise == "free"

\* save_backends raises: open(..., "w") failed (the file is as it was) or
\* the write failed after the open truncated it (an error of the file
\* system, or the CancelledError of a cancelled call); the exception leaves
\* the async with, which releases the lock, and nothing is rolled back
SaveFail(truncated) ==
    /\ mpc = "saving"
    /\ file' = IF truncated THEN GarbageFile ELSE file
    /\ lock' = LockAfterRaise
    /\ mpc' = "idle"
    /\ saves' = saves - 1
    /\ lastsave' = "failed"
    /\ UNCHANGED <<phase, restarts, mutations>>
    /\ UNCHANGED regVars
    /\ UNCHANGED reqVars
    /\ UNCHANGED probeVars

\* ------------------------------------------------- the proxy middleware
\* a mutant of Increment: the update is lost
IncrementLost(qc, t) == qc

\* queue_counts[target] += 1
Increment(qc, t) == [qc EXCEPT ![t] = @ + 1]

\* a mutant of Decrement: the count is reset
DecrementToZero(qc, t) == [qc EXCEPT ![t] = 0]

\* queue_counts[target] -= 1
Decrement(qc, t) == [qc EXCEPT ![t] = @ - 1]

\* str.startswith on paths written as sequences of pieces
StartsWith(p, prefix) ==
    Len(p) >= Len(prefix) /\ SubSeq(p, 1, Len(prefix)) = prefix

\* a mutant of IsBypassed: the two paths are compared for equality
IsBypassedExact(p) == p = <<"/servers">> \/ p = <<"/queue-lengths">>

\* path.startswith("/servers") or path == "/queue-lengths"
IsBypassed(p) == StartsWith(p, <<"/servers">>) \/ p = <<"/queue-lengths">>

\* the format of a bytes object in an f-string is its repr: b'...'
BytesRepr(q) == <<"b'">> \o q \o <<"'">>

\* f"{target}{request.url.path}?{request.url.query.encode('utf-8')}"
UpstreamUrl(t, p, q) == <<t>> \o p \o <<"?">> \o BytesRepr(q)

\* str.lower on the header names of ResponseHeaders
Lower(name) ==
    CASE name \in {"Content-Type"} -> "content-type"
      [] name \in {"Content-Length", "content-length"} -> "content-length"
      [] name \in {"CONNECTION"} -> "connection"
      [] name \in {"Transfer-Encoding"} -> "transfer-encoding"
      [] name \in {"Set-Cookie"} -> "set-cookie"
      [] name \in {"X-Id"} -> "x-id"
      [] OTHER -> name

\* resp.headers.items() of httpx: the names in lower case, one item per
\* name in the order of first occurrence, the values of a repeated name
\* joined with ", "
RECURSIVE HeaderItems(_, _)
HeaderItems(fields, items) ==
    IF fields = <<>> THEN items
    ELSE LET k == Lower(Head(fields).name)
             v == Head(fields).value
         IN IF \E i \in 1..Len(items): items[i].name = k
            THEN HeaderItems(Tail(fields),
                     [i \in 1..Len(items) |->
                         IF items[i].name = k
                         THEN [name |-> k, value |-> items[i].value \o <<", ">> \o v]
                         ELSE items[i]])
            ELSE HeaderItems(Tail(fields), Append(items, [name |-> k, value |-> v]))

HopByHop == {"content-length", "transfer-encoding", "connection"}

\* {k: v for k, v in resp.headers.items() if k.lower() not in (...)}: a dict,
\* written as the list of its items in insertion order
FilterHeaders(fields) ==
    SelectSeq(HeaderItems(fields, <<>>), LAMBDA it: Lower(it.name) \notin HopByHop)

\* if path.startswith("/servers") or path == "/queue-lengths":
\*     return await call_next(request)
\* the request goes to the routes; the middleware does nothing else
Bypass(r) ==
    /\ phase = "running"
    /\ pc[r] = "received"
    /\ \A q \in Requests: q < r => pc[q] # "received"
    /\ IsBypassed(path[r])
    /\ pc' = [pc EXCEPT ![r] = "done"]
    /\ outcome' = [outcome EXCEPT ![r] = "call_next"]
    /\ UNCHANGED <<target, attempt, exit, got, failed, status, released,
                   path, query, sent, resp_headers, filtered_headers>>
    /\ UNCHANGED <<phase, restarts, lock, file>>
    /\ UNCHANGED regVars
    /\ UNCHANGED probeVars
    /\ UNCHANGED mgmtVars

\* a mutant of LockAfterSelect: the request keeps the lock
LockKeptAfterSelect == "request"

\* the end of the async with lock of the select: the lock is released
LockAfterSelect == "free"

\* async with lock: available / 503 / min / increment.  Requests are alike
\* until they select: they are numbered in the order in which they get here.
Select(r) ==
    /\ phase = "running"
    /\ pc[r] = "received"
    /\ \A q \in Requests: q < r => pc[q] # "received"
    /\ ~IsBypassed(path[r])
    /\ lock = "free"
    /\ LET available == Available(backends, health_status)
       IN IF available = <<>>
          THEN /\ outcome' = [outcome EXCEPT ![r] = "503"]
               /\ pc' = [pc EXCEPT ![r] = "done"]
               /\ UNCHANGED <<queue_counts, target, attempt, sent>>
          ELSE IF \E i \in 1..Len(available): available[i] \notin DOMAIN queue_counts
          THEN \* queue_counts[u] raises KeyError inside min
               /\ outcome' = [outcome EXCEPT ![r] = "KeyError"]
               /\ pc' = [pc EXCEPT ![r] = "done"]
               /\ UNCHANGED <<queue_counts, target, attempt, sent>>
          ELSE LET t == MinByCount(available, queue_counts)
               IN /\ queue_counts' = Increment(queue_counts, t)
                  /\ target' = [target EXCEPT ![r] = t]
                  /\ attempt' = [attempt EXCEPT ![r] = 1]
                  /\ pc' = [pc EXCEPT ![r] = "dispatching"]
                  /\ sent' = [sent EXCEPT ![r] = UpstreamUrl(t, path[r], query[r])]
                  /\ UNCHANGED outcome
    /\ lock' = LockAfterSelect
    /\ UNCHANGED <<phase, restarts, file, backends, health_status>>
    /\ UNCHANGED <<exit, got, failed, status, released>>
    /\ UNCHANGED <<path, query, resp_headers, filtered_headers>>
    /\ UNCHANGED probeVars
    /\ UNCHANGED mgmtVars

\* finally: async with lock: queue_counts[target] -= 1.  The finally belongs
\* to the try inside the for loop, so it runs once per pass; ex is how the
\* try statement is being left.  A missing key raises KeyError, which
\* replaces the pending return or exception.  The local target ends with
\* the handler and is cleared when the handler is left.
FinallyBlock(r, ex) ==
    IF target[r] \in DOMAIN queue_counts
    THEN /\ queue_counts' = Decrement(queue_counts, target[r])
         /\ released' = [released EXCEPT ![r] = @ + 1]
         /\ CASE ex = "continue" ->
                   /\ attempt' = [attempt EXCEPT ![r] = @ + 1]
                   /\ pc' = [pc EXCEPT ![r] = "dispatching"]
                   /\ sent' = [sent EXCEPT ![r] =
                                   UpstreamUrl(target[r], path[r], query[r])]
                   /\ UNCHANGED <<outcome, target, status>>
              [] ex = "return" ->
                   /\ pc' = [pc EXCEPT ![r] = "streaming"]
                   /\ outcome' = [outcome EXCEPT ![r] = "response"]
                   /\ status' = [status EXCEPT ![r] = got'[r]]
                   /\ UNCHANGED <<attempt, target, sent>>
              [] ex = "raise502" ->
                   /\ pc' = [pc EXCEPT ![r] = "done"]
                   /\ outcome' = [outcome EXCEPT ![r] = "502"]
                   /\ target' = [target EXCEPT ![r] = ""]
                   /\ sent' = [sent EXCEPT ![r] = <<>>]
                   /\ UNCHANGED <<attempt, status>>
              [] OTHER ->
                   /\ pc' = [pc EXCEPT ![r] = "done"]
                   /\ outcome' = [outcome EXCEPT ![r] = "raised"]
                   /\ target' = [target EXCEPT ![r] = ""]
                   /\ sent' = [sent EXCEPT ![r] = <<>>]
                   /\ UNCHANGED <<attempt, status>>
    ELSE /\ pc' = [pc EXCEPT ![r] = "done"]
         /\ outcome' = [outcome EXCEPT ![r] = "KeyError"]
         /\ target' = [target EXCEPT ![r] = ""]
         /\ sent' = [sent EXCEPT ![r] = <<>>]
         /\ UNCHANGED <<queue_counts, released, attempt, status>>

\* The try statement is left with ex.  Acquiring a free asyncio.Lock does
\* not suspend, so the finally runs in the same step; when add_server or
\* remove_server holds the lock the task waits in the finally (pc "finally",
\* with the pending exit kept in exit).
LeaveTry(r, ex) ==
    /\ IF lock = "free"
       THEN /\ FinallyBlock(r, ex)
            /\ UNCHANGED exit
       ELSE /\ pc' = [pc EXCEPT ![r] = "finally"]
            /\ exit' = [exit EXCEPT ![r] = ex]
            /\ UNCHANGED <<queue_counts, released, attempt, outcome, target, status,
                           sent>>
    /\ UNCHANGED <<path, query>>
    /\ UNCHANGED <<phase, restarts, lock, file, backends, health_status>>
    /\ UNCHANGED probeVars
    /\ UNCHANGED mgmtVars

\* client.stream(...) delivered the upstream headers with status code:
\* return StreamingResponse(...) leaves the async with (resp is closed) and
\* the try, so the finally runs before the handler returns the response
UpstreamHeaders(r, code, fields) ==
    /\ pc[r] = "dispatching"
    /\ got' = [got EXCEPT ![r] = code]
    /\ resp_headers' = [resp_headers EXCEPT ![r] = fields]
    /\ filtered_headers' = [filtered_headers EXCEPT ![r] = FilterHeaders(fields)]
    /\ UNCHANGED failed
    /\ LeaveTry(r, "return")

\* except httpx.RequestError: on the last attempt raise HTTPException(502);
\* otherwise await asyncio.sleep(1), still inside the except clause
TransportError(r) ==
    /\ pc[r] = "dispatching"
    /\ failed' = [failed EXCEPT ![r] = @ + 1]
    /\ UNCHANGED <<got, resp_headers, filtered_headers>>
    /\ IF attempt[r] = max_retries
       THEN LeaveTry(r, "raise502")
       ELSE /\ pc' = [pc EXCEPT ![r] = "sleeping"]
            /\ UNCHANGED <<phase, restarts, lock, file>>
            /\ UNCHANGED regVars
            /\ UNCHANGED <<target, attempt, exit, status, outcome, released,
                           path, query, sent>>
            /\ UNCHANGED probeVars
            /\ UNCHANGED mgmtVars

\* asyncio.sleep(1) returns; the except clause ends, the finally runs and
\* the for loop goes on with the next attempt
SleepDone(r) ==
    /\ pc[r] = "sleeping"
    /\ UNCHANGED <<got, failed, resp_headers, filtered_headers>>
    /\ LeaveTry(r, "continue")

\* an exception that is not an httpx.RequestError leaves the try statement:
\* an error of the upstream call that httpx does not report as a
\* RequestError, or the CancelledError of a cancelled request task at one of
\* the awaits (client.stream, asyncio.sleep); only the finally runs
Abort(r) ==
    /\ pc[r] \in {"dispatching", "sleeping"}
    /\ UNCHANGED <<got, failed, resp_headers, filtered_headers>>
    /\ LeaveTry(r, "raise")

\* the lock the finally waited for is free again
Finally(r) ==
    /\ pc[r] = "finally"
    /\ lock = "free"
    /\ UNCHANGED <<got, failed, resp_headers, filtered_headers>>
    /\ FinallyBlock(r, exit[r])
    /\ exit' = [exit EXCEPT ![r] = "none"]
    /\ UNCHANGED <<path, query>>
    /\ UNCHANGED <<phase, restarts, lock, file, backends, health_status>>
    /\ UNCHANGED probeVars
    /\ UNCHANGED mgmtVars

\* the request task is cancelled while it waits for the lock in the
\* finally: the acquisition raises CancelledError, which replaces the
\* pending exit; the decrement does not run and the lock is not taken
CancelWaiting(r) ==
    /\ pc[r] = "finally"
    /\ pc' = [pc EXCEPT ![r] = "done"]
    /\ outcome' = [outcome EXCEPT ![r] = "cancelled"]
    /\ exit' = [exit EXCEPT ![r] = "none"]
    /\ target' = [target EXCEPT ![r] = ""]
    /\ sent' = [sent EXCEPT ![r] = <<>>]
    /\ UNCHANGED <<attempt, got, failed, status, released,
                   path, query, resp_headers, filtered_headers>>
    /\ UNCHANGED <<phase, restarts, lock, file>>
    /\ UNCHANGED regVars
    /\ UNCHANGED probeVars
    /\ UNCHANGED mgmtVars

\* the StreamingResponse body ends: proxy_streamer is exhausted (or caught
\* StreamClosed) and the background task resp.aclose has run
StreamEnd(r) ==
    /\ pc[r] = "streaming"
    /\ pc' = [pc EXCEPT ![r] = "done"]
    /\ target' = [target EXCEPT ![r] = ""]
    /\ sent' = [sent EXCEPT ![r] = <<>>]
    /\ UNCHANGED <<phase, restarts, lock, file>>
    /\ UNCHANGED regVars
    /\ UNCHANGED <<attempt, exit, got, failed, status, outcome, released,
                   path, query, resp_headers, filtered_headers>>
    /\ UNCHANGED probeVars
    /\ UNCHANGED mgmtVars

\* ----------------------------------------------------------------- Next
Next ==
    \/ Lifespan
    \/ ProbeSnapshot
    \/ \E code \in ProbeCodes: ProbeGet(code)
    \/ ProbeUpdate
    \/ ProbeWake
    \/ \E url \in Urls: AddServer(url)
    \/ \E url \in Urls: RemoveServer(url)
    \/ SaveOk
    \/ \E truncated \in BOOLEAN: SaveFail(truncated)
    \/ \E r \in Requests: Select(r)
    \/ \E r \in Requests, code \in UpstreamStatuses:
          UpstreamHeaders(r, code, PlainHeaders)
    \/ \E r \in Requests: TransportError(r)
    \/ \E r \in Requests: Abort(r)
    \/ \E r \in Requests: SleepDone(r)
    \/ \E r \in Requests: Finally(r)
    \/ \E r \in Requests: CancelWaiting(r)
    \/ \E r \in Requests: StreamEnd(r)

Spec == Init /\ [][Next]_vars

\* The proxy with a Persister that does not fail: every action but SaveFail
NextProxy ==
    \/ Lifespan
    \/ ProbeSnapshot
    \/ \E code \in ProbeCodes: ProbeGet(code)
    \/ ProbeUpdate
    \/ ProbeWake
    \/ \E url \in Urls: AddServer(url)
    \/ \E url \in Urls: RemoveServer(url)
    \/ SaveOk
    \/ \E r \in Requests: Select(r)
    \/ \E r \in Requests, code \in UpstreamStatuses:
          UpstreamHeaders(r, code, PlainHeaders)
    \/ \E r \in Requests: TransportError(r)
    \/ \E r \in Requests: Abort(r)
    \/ \E r \in Requests: SleepDone(r)
    \/ \E r \in Requests: Finally(r)
    \/ \E r \in Requests: StreamEnd(r)

SpecProxy == Init /\ [][NextProxy]_vars

\* ------------------------------------------------- the registry over restarts
\* The process is stopped while it serves no request and no management call
\* and is started again: the module-level state is created anew (backends,
\* queue_counts and health_status empty, a new lock, no health-check task),
\* backends.json is what the stopped process left, and the lifespan startup
\* of the new process runs before it serves anything.
Restart ==
    /\ phase = "running"
    /\ mpc = "idle"
    /\ \A r \in Requests: pc[r] \in {"received", "done"}
    /\ restarts < MaxRestarts
    /\ restarts' = restarts + 1
    /\ IF extend_raises(file)
       THEN /\ phase' = "failed"
            /\ backends' = <<>>
            /\ queue_counts' = EmptyDict
            /\ health_status' = EmptyDict
            /\ ppc' = "unstarted"
       ELSE /\ LET loaded == load_backends(file)
                   bs == <<>> \o loaded
               IN /\ backends' = bs
                  /\ queue_counts' = InitEntries(EmptyDict, bs, 0)
                  /\ health_status' = InitEntries(EmptyDict, bs, FALSE)
            /\ phase' = "running"
            /\ ppc' = "sleeping"
    /\ lock' = "free"
    /\ targets' = <<>>
    /\ pidx' = 0
    /\ pok' = FALSE
    /\ pstale' = FALSE
    /\ UNCHANGED <<file, cycles>>
    /\ UNCHANGED reqVars
    /\ UNCHANGED mgmtVars

\* how far save_backends has come when the process stops in it: the file
\* has been opened with mode "w" (it is empty), or a part of the text has
\* been written
CrashStages == {"opened", "partial"}

\* backends.json of a save that stopped at stage: open(..., "w") truncates
\* the file in place, and f.write puts the text there piece by piece
InterruptedFile(bs, stage) ==
    [exists |-> TRUE,
     text |-> IF stage = "opened" THEN <<>>
              ELSE SubSeq(json_dumps(bs), 1, Len(json_dumps(bs)) - 1)]

\* The process stops while add_server or remove_server is in save_backends,
\* and is started again: backends.json is what the save has left, the
\* module-level state is created anew and the lifespan startup runs
CrashInSave(stage) ==
    /\ phase = "running"
    /\ mpc = "saving"
    /\ \A r \in Requests: pc[r] \in {"received", "done"}
    /\ restarts < MaxRestarts
    /\ restarts' = restarts + 1
    /\ file' = InterruptedFile(backends, stage)
    /\ LET loaded == load_backends(file')
           bs == <<>> \o loaded
       IN /\ backends' = bs
          /\ queue_counts' = InitEntries(EmptyDict, bs, 0)
          /\ health_status' = InitEntries(EmptyDict, bs, FALSE)
    /\ phase' = "running"
    /\ ppc' = "sleeping"
    /\ lock' = "free"
    /\ mpc' = "idle"
    /\ saves' = 0
    /\ lastsave' = "failed"
    /\ targets' = <<>>
    /\ pidx' = 0
    /\ pok' = FALSE
    /\ pstale' = FALSE
    /\ UNCHANGED <<cycles, mutations>>
    /\ UNCHANGED reqVars

\* The whole program with a Persister whose writes succeed, started on any
\* of RegistryFiles, serving one proxied request and restarted
RegistryRequests == {1}

InitRegistry == InitMemory /\ file \in RegistryFiles

NextRegistry ==
    \/ Lifespan
    \/ ProbeSnapshot
    \/ \E code \in ProbeCodes: ProbeGet(code)
    \/ ProbeUpdate
    \/ ProbeWake
    \/ \E url \in Urls: AddServer(url)
    \/ \E url \in Urls: RemoveServer(url)
    \/ SaveOk
    \/ \E r \in RegistryRequests: Select(r)
    \/ \E r \in RegistryRequests, code \in UpstreamStatuses:
          UpstreamHeaders(r, code, PlainHeaders)
    \/ \E r \in RegistryRequests: TransportError(r)
    \/ \E r \in RegistryRequests: Abort(r)
    \/ \E r \in RegistryRequests: SleepDone(r)
    \/ \E r \in RegistryRequests: Finally(r)
    \/ \E r \in RegistryRequests: StreamEnd(r)
    \/ Restart

SpecRegistry == InitRegistry /\ [][NextRegistry]_vars

\* ------------------------------------------------- the Persister that can fail
\* The registry, the Persister and the health-check loop of a process that
\* serves management calls only, started on any of StartupFiles, with saves
\* that succeed or raise, restarted, and stopped in a save
InitPersist == InitMemory /\ file \in StartupFiles

NextPersist ==
    \/ Lifespan
    \/ ProbeSnapshot
    \/ \E code \in ProbeCodes: ProbeGet(code)
    \/ ProbeUpdate
    \/ ProbeWake
    \/ \E url \in Urls: AddServer(url)
    \/ \E url \in Urls: RemoveServer(url)
    \/ SaveOk
    \/ \E truncated \in BOOLEAN: SaveFail(truncated)
    \/ Restart
    \/ \E stage \in CrashStages: CrashInSave(stage)

SpecPersist == InitPersist /\ [][NextPersist]_vars

\* ------------------------------------------------- lifespan shutdown
\* a mutant of Shutdown: the roster is saved at shutdown
ShutdownSaving ==
    /\ phase = "running"
    /\ mpc = "idle"
    /\ \A r \in Requests: pc[r] \in {"received", "done"}
    /\ phase' = "stopping"
    /\ file' = save_backends(backends)
    /\ UNCHANGED <<lock, restarts>>
    /\ UNCHANGED regVars
    /\ UNCHANGED reqVars
    /\ UNCHANGED probeVars
    /\ UNCHANGED mgmtVars

\* lifespan after the yield: task.cancel().  The server runs the shutdown
\* when it serves no request and no management call.
Shutdown ==
    /\ phase = "running"
    /\ mpc = "idle"
    /\ \A r \in Requests: pc[r] \in {"received", "done"}
    /\ phase' = "stopping"
    /\ UNCHANGED <<lock, file, restarts>>
    /\ UNCHANGED regVars
    /\ UNCHANGED reqVars
    /\ UNCHANGED probeVars
    /\ UNCHANGED mgmtVars

\* await task: CancelledError is raised at the await where the task is
\* suspended (asyncio.sleep, client.get, or the acquisition of the lock);
\* except Exception does not catch it, and the task ends with its locals
ProberCancelled ==
    /\ phase = "stopping"
    /\ ppc \notin {"unstarted", "cancelled"}
    /\ ppc' = "cancelled"
    /\ targets' = <<>>
    /\ pidx' = 0
    /\ pok' = FALSE
    /\ pstale' = FALSE
    /\ UNCHANGED <<phase, lock, file, restarts, cycles>>
    /\ UNCHANGED regVars
    /\ UNCHANGED reqVars
    /\ UNCHANGED mgmtVars

\* except asyncio.CancelledError: pass; await client.aclose()
ClientClose ==
    /\ phase = "stopping"
    /\ ppc = "cancelled"
    /\ phase' = "stopped"
    /\ UNCHANGED <<lock, file, restarts>>
    /\ UNCHANGED regVars
    /\ UNCHANGED reqVars
    /\ UNCHANGED probeVars
    /\ UNCHANGED mgmtVars

\* The whole program serving one proxied request, with saves that succeed or
\* raise, until it is shut down
NextShutdown ==
    \/ Lifespan
    \/ ProbeSnapshot
    \/ \E code \in ProbeCodes: ProbeGet(code)
    \/ ProbeUpdate
    \/ ProbeWake
    \/ \E url \in Urls: AddServer(url)
    \/ \E url \in Urls: RemoveServer(url)
    \/ SaveOk
    \/ \E truncated \in BOOLEAN: SaveFail(truncated)
    \/ \E r \in RegistryRequests: Select(r)
    \/ \E r \in RegistryRequests, code \in UpstreamStatuses:
          UpstreamHeaders(r, code, PlainHeaders)
    \/ \E r \in RegistryRequests: TransportError(r)
    \/ \E r \in RegistryRequests: Abort(r)
    \/ \E r \in RegistryRequests: SleepDone(r)
    \/ \E r \in RegistryRequests: Finally(r)
    \/ \E r \in RegistryRequests: StreamEnd(r)
    \/ Shutdown
    \/ ProberCancelled
    \/ ClientClose

SpecShutdown == Init /\ [][NextShutdown]_vars

\* ------------------------------------------------- fair scheduling
\* The whole program serving one proxied request, with saves that succeed or
\* raise and with cancellations, under the scheduling of the event loop:
\* a task that can go on does go on (the startup, each step of the
\* health-check loop, whose client.get ends within its timeout of 2
\* seconds, the select, the sleep of 1 second, the finally and the body
\* stream of the request), a save ends (it returns or raises) and every
\* upstream attempt ends with headers or with a transport error.  The
\* management calls and the cancellations are the environment's.
LiveRequests == {1}

NextLive ==
    \/ Lifespan
    \/ ProbeSnapshot
    \/ \E code \in ProbeCodes: ProbeGet(code)
    \/ ProbeUpdate
    \/ ProbeWake
    \/ \E url \in Urls: AddServer(url)
    \/ \E url \in Urls: RemoveServer(url)
    \/ SaveOk
    \/ \E truncated \in BOOLEAN: SaveFail(truncated)
    \/ \E r \in LiveRequests: Select(r)
    \/ \E r \in LiveRequests, code \in UpstreamStatuses:
          UpstreamHeaders(r, code, PlainHeaders)
    \/ \E r \in LiveRequests: TransportError(r)
    \/ \E r \in LiveRequests: Abort(r)
    \/ \E r \in LiveRequests: SleepDone(r)
    \/ \E r \in LiveRequests: Finally(r)
    \/ \E r \in LiveRequests: CancelWaiting(r)
    \/ \E r \in LiveRequests: StreamEnd(r)

FairLive ==
    /\ WF_vars(Lifespan)
    /\ WF_vars(ProbeWake)
    /\ WF_vars(ProbeSnapshot)
    /\ WF_vars(\E code \in ProbeCodes: ProbeGet(code))
    /\ WF_vars(ProbeUpdate)
    /\ WF_vars(SaveOk \/ \E truncated \in BOOLEAN: SaveFail(truncated))
    /\ \A r \in LiveRequests:
          /\ WF_vars(Select(r))
          /\ WF_vars(\/ \E code \in UpstreamStatuses:
                           UpstreamHeaders(r, code, PlainHeaders)
                     \/ TransportError(r))
          /\ WF_vars(SleepDone(r))
          /\ WF_vars(Finally(r))
          /\ WF_vars(StreamEnd(r))

SpecLive == Init /\ [][NextLive]_vars /\ FairLive

\* ------------------------------------------------- the health-check loop for ever
\* The program with a health-check loop that does not end, management calls
\* and one proxied request whose upstream answers, under the scheduling of
\* the event loop: the startup runs, the sleep of 5 seconds ends, client.get
\* ends within its timeout of 2 seconds, a save ends and the lock is given
\* to the waiting loop
NextHealth ==
    \/ Lifespan
    \/ ProbeLoop
    \/ ProbeSnapshot
    \/ \E code \in ProbeCodes: ProbeGet(code)
    \/ ProbeUpdate
    \/ \E url \in Urls: AddServer(url)
    \/ \E url \in Urls: RemoveServer(url)
    \/ SaveOk
    \/ \E r \in LiveRequests: Select(r)
    \/ \E r \in LiveRequests, code \in UpstreamStatuses:
          UpstreamHeaders(r, code, PlainHeaders)
    \/ \E r \in LiveRequests: Finally(r)
    \/ \E r \in LiveRequests: StreamEnd(r)

FairHealth ==
    /\ WF_vars(Lifespan)
    /\ WF_vars(ProbeLoop)
    /\ WF_vars(ProbeSnapshot)
    /\ WF_vars(\E code \in ProbeCodes: ProbeGet(code))
    /\ WF_vars(ProbeUpdate)
    /\ WF_vars(SaveOk)

SpecHealth == Init /\ [][NextHealth]_vars /\ FairHealth

\* ------------------------------------------------- the forwarded request
\* The program serving one request of any path of Paths and any query of
\* Queries, whose upstream answers with any header fields of
\* ResponseHeaders, beside the management calls and the health-check loop
ForwardRequests == {1}

InitForward ==
    /\ InitState
    /\ file \in InitialFiles
    /\ \E p \in Paths, q \in Queries:
          /\ path = [r \in Requests |-> IF r \in ForwardRequests THEN p ELSE ProxiedPath]
          /\ query = [r \in Requests |-> IF r \in ForwardRequests THEN q ELSE NoQuery]

NextForward ==
    \/ Lifespan
    \/ ProbeSnapshot
    \/ \E code \in ProbeCodes: ProbeGet(code)
    \/ ProbeUpdate
    \/ ProbeWake
    \/ \E url \in Urls: AddServer(url)
    \/ \E url \in Urls: RemoveServer(url)
    \/ SaveOk
    \/ \E r \in ForwardRequests: Bypass(r)
    \/ \E r \in ForwardRequests: Select(r)
    \/ \E r \in ForwardRequests, code \in UpstreamStatuses, fields \in ResponseHeaders:
          UpstreamHeaders(r, code, fields)
    \/ \E r \in ForwardRequests: TransportError(r)
    \/ \E r \in ForwardRequests: Abort(r)
    \/ \E r \in ForwardRequests: SleepDone(r)
    \/ \E r \in ForwardRequests: Finally(r)
    \/ \E r \in ForwardRequests: StreamEnd(r)

SpecForward == InitForward /\ [][NextForward]_vars

\* =================================================================
\* Properties
\* =================================================================
Roster == {backends[i] : i \in 1..Len(backends)}
IsHealthy(u) == u \in DOMAIN health_status /\ health_status[u] = TRUE
HealthyRoster == {u \in Roster : IsHealthy(u)}
FirstIndex(u) ==
    CHOOSE i \in 1..Len(backends):
        backends[i] = u /\ \A j \in 1..(i-1): backends[j] # u

\* requests that selected u and whose handler has not run its last finally
BeforeRelease(u) ==
    {r \in Requests : target[r] = u /\ pc[r] \in {"dispatching", "sleeping", "finally"}}

\* C1 (P1, counting): for every backend of the Registry, in_flight equals the
\* number of requests that selected it and have not reached their terminal
\* release, throughout all dispatch attempts and retry sleeps.
C1_Counting ==
    \A u \in Roster \cap DOMAIN queue_counts:
        queue_counts[u] = Cardinality(BeforeRelease(u))

\* C2: in_flight >= 0 for every backend, in every reachable state.
C2_NonNegative ==
    \A u \in DOMAIN queue_counts: queue_counts[u] >= 0

\* C3 (P5, release exactly once): a request whose select incremented a
\* backend's in_flight executes the matching decrement exactly once over its
\* lifetime, whatever the number of attempts and the exit path (response
\* relayed, 502, cancellation, other upstream error).
C3_ReleaseOnce ==
    \A r \in Requests:
        /\ released[r] <= 1
        /\ (pc[r] = "done" /\ outcome[r] \in {"response", "502", "raised"})
              => released[r] = 1

\* C4 (quiescence): whenever every request that was started has completed,
\* every backend's in_flight is 0.
C4_Quiescence ==
    (\A r \in Requests: pc[r] \in {"received", "done"})
        => \A u \in DOMAIN queue_counts: queue_counts[u] = 0

\* C5 (P2, selection): a successful select returns a roster backend that is
\* healthy, has the minimal in_flight among the healthy roster backends and
\* is the earliest-inserted of those; it increments exactly that backend's
\* in_flight by 1 and changes no other in_flight and no health flag.
C5_Selection ==
    [][\A r \in Requests:
         (pc[r] = "received" /\ pc'[r] = "dispatching") =>
            LET t == target'[r] IN
            /\ t \in HealthyRoster
            /\ \A u \in HealthyRoster: queue_counts[t] <= queue_counts[u]
            /\ \A u \in HealthyRoster:
                   queue_counts[u] = queue_counts[t] => FirstIndex(t) <= FirstIndex(u)
            /\ queue_counts' = [queue_counts EXCEPT ![t] = @ + 1]
            /\ health_status' = health_status
            /\ backends' = backends]_vars

\* C5 witness: with two healthy backends, a request was sent to the
\* later-inserted one because the earlier one already had a request in flight
C5_Witness ==
    /\ Len(backends) = 2
    /\ IsHealthy(backends[1]) /\ IsHealthy(backends[2])
    /\ \E r, q \in Requests:
          /\ pc[q] = "dispatching" /\ attempt[q] = 1 /\ target[q] = backends[1]
          /\ pc[r] = "dispatching" /\ attempt[r] = 1 /\ target[r] = backends[2]
          /\ queue_counts[backends[1]] = 1 /\ queue_counts[backends[2]] = 1

\* C6: a request that arrives when no roster backend is healthy ends with
\* 503, makes no dispatch attempt and leaves the Registry and the file
\* unchanged; 503 occurs only in that case.
C6_NoHealthy503 ==
    /\ [][\A r \in Requests:
            (pc[r] = "received" /\ pc'[r] # "received") =>
               /\ (HealthyRoster = {}) <=> (outcome'[r] = "503")
               /\ (HealthyRoster = {}) =>
                     /\ pc'[r] = "done"
                     /\ attempt'[r] = 0
                     /\ UNCHANGED <<backends, queue_counts, health_status, file>>]_vars
    /\ [][\A r \in Requests:
            (outcome'[r] = "503" /\ outcome[r] # "503") => pc[r] = "received"]_vars
    /\ [](\A r \in Requests:
            outcome[r] = "503" => pc[r] = "done" /\ attempt[r] = 0 /\ target[r] = "")

\* C6 witness: a request ended with 503 while the roster holds backends,
\* none of them healthy
C6_Witness ==
    /\ backends # <<>>
    /\ HealthyRoster = {}
    /\ \E r \in Requests: outcome[r] = "503" /\ pc[r] = "done"

\* C7 (retry discipline): all attempts of a request go to the target of its
\* one select; at most max_retries attempts are made; the request ends in
\* 502 if and only if three attempts failed with a transport error.
C7_RetryDiscipline ==
    /\ [](\A r \in Requests:
            /\ attempt[r] <= max_retries
            /\ pc[r] = "done" => (outcome[r] = "502" <=> failed[r] = max_retries))
    /\ [][\A r \in Requests:
            (target[r] # "" /\ pc'[r] # "done") => target'[r] = target[r]]_vars

\* C8: once upstream headers were received on an attempt, no further attempt
\* is made, and the client sees the upstream's status of that attempt.
C8_HeadersFinal ==
    /\ [](\A r \in Requests:
            (got[r] # 0 /\ pc[r] \in {"streaming", "done"})
                => (outcome[r] = "response" /\ status[r] = got[r]))
    /\ [][\A r \in Requests:
            got[r] # 0 => (attempt'[r] = attempt[r] /\ pc'[r] # "dispatching")]_vars

\* C9: for a request whose upstream headers were received, the in_flight
\* decrement occurs after the body stream has ended: while the body is
\* streaming no decrement has been executed for the request.
C9_ReleaseAfterStream ==
    \A r \in Requests: pc[r] = "streaming" => released[r] = 0

\* C10: when the target is removed between select and release, the release
\* is a silent no-op: no request ends with an error raised by its release.
C10_RemovedTargetTolerated ==
    \A r \in Requests: outcome[r] # "KeyError"

\* C11: a release on a backend whose in_flight is 0 leaves it at 0; when a
\* url is removed and added again while a request selected on the old entry
\* is in progress, that request's release does not drive the new entry's
\* in_flight below 0.  (Stated for steps after which no request has run
\* more than one decrement, which sets the repeated decrements of C3 aside.)
C11_ReleaseFloor ==
    [][(\A r \in Requests: released'[r] <= 1) =>
          \A u \in DOMAIN queue_counts \cap DOMAIN queue_counts':
              queue_counts[u] = 0 => queue_counts'[u] >= 0]_vars

\* C12 (registry consistency): whenever no operation holds the lock, the set
\* of urls of the roster list, the key set of the in_flight map and the key
\* set of the healthy map are equal.
C12_RegistryConsistent ==
    lock = "free" =>
        /\ Roster = DOMAIN queue_counts
        /\ DOMAIN queue_counts = DOMAIN health_status

\* C13 (url uniqueness): the roster list contains no url more than once, for
\* any sequence of add/remove calls and any content of the file at startup,
\* a file whose backends array repeats a url included.
C13_UniqueUrls ==
    \A i, j \in 1..Len(backends): backends[i] = backends[j] => i = j

\* C14 (persistence invariant): whenever a management add or remove call
\* has returned and none is in progress, the url sequence stored in the file
\* equals the roster list (same elements, same order), the saves succeeding.
\* Before the first call that changes the roster the file is the one found
\* at startup, and what load_backends reads from it is the roster.
C14_PersistedEqualsRoster ==
    (phase = "running" /\ mpc = "idle") =>
        /\ load_backends(file) = backends
        /\ mutations >= 1 =>
              (file.exists /\ json_loads(file.text) = [ok |-> TRUE, items |-> backends])

\* C14 witness: a remove and an add have returned; the roster, now in the
\* order b, a, is what the file holds
C14_Witness ==
    /\ mpc = "idle"
    /\ mutations = 2
    /\ restarts = 0
    /\ backends = <<"b", "a">>
    /\ file.text = <<"{", "backends", ":", "[", "b", ",", "a", "]", "}">>

\* C15 (P3, restart round trip): after a sequence of add/remove operations
\* followed by a restart, the Registry loaded from the file has the urls of
\* the Registry before the restart in the same order, every in_flight 0 and
\* every healthy flag false.
C15_RestartRoundTrip ==
    [][restarts' = restarts + 1 =>
          /\ backends' = backends
          /\ queue_counts' = [u \in Roster |-> 0]
          /\ health_status' = [u \in Roster |-> FALSE]]_vars

\* C15 witness: the process was restarted after a remove and an add had
\* changed the order of the roster and a probe cycle had run; the roster is
\* in the changed order and nothing has touched the runtime state since
C15_Witness ==
    /\ restarts = 1
    /\ mutations = 2
    /\ cycles = 1
    /\ ppc = "sleeping"
    /\ backends = <<"b", "a">>
    /\ queue_counts = [u \in {"a", "b"} |-> 0]
    /\ health_status = [u \in {"a", "b"} |-> FALSE]

\* C16 (idempotence): add(url) for a url already in the Registry changes
\* nothing (roster, in_flight, healthy, file; no save is started);
\* remove(url) for an absent url likewise changes nothing.
C16_Idempotence ==
    [][\A u \in Urls:
         /\ (u \in Roster /\ AddServer(u)) =>
                UNCHANGED <<backends, queue_counts, health_status, file, mpc>>
         /\ (u \notin Roster /\ RemoveServer(u)) =>
                UNCHANGED <<backends, queue_counts, health_status, file, mpc>>]_vars

\* C17 (effect of an effective mutation): add(url) for an absent url
\* appends url at the end of the roster with in_flight 0 and healthy false;
\* remove(url) for a present url deletes exactly that entry; either leaves
\* the order, in_flight and healthy of all other backends unchanged.
OthersUnchanged(u) ==
    /\ SelectSeq(backends', LAMBDA v: v # u) = SelectSeq(backends, LAMBDA v: v # u)
    /\ \A v \in (DOMAIN queue_counts) \ {u}:
          v \in DOMAIN queue_counts' /\ queue_counts'[v] = queue_counts[v]
    /\ \A v \in (DOMAIN health_status) \ {u}:
          v \in DOMAIN health_status' /\ health_status'[v] = health_status[v]

C17_EffectiveMutation ==
    [][\A u \in Urls:
         /\ (u \notin Roster /\ AddServer(u)) =>
                /\ backends' = Append(backends, u)
                /\ u \in DOMAIN queue_counts' /\ queue_counts'[u] = 0
                /\ u \in DOMAIN health_status' /\ health_status'[u] = FALSE
                /\ OthersUnchanged(u)
         /\ (u \in Roster /\ RemoveServer(u)) =>
                /\ \A i \in 1..Len(backends'): backends'[i] # u
                /\ u \notin DOMAIN queue_counts'
                /\ u \notin DOMAIN health_status'
                /\ OthersUnchanged(u)]_vars

\* C18: set_health on an absent url is a no-op: when a backend is removed
\* after the prober took its snapshot, the health update for that url
\* creates no health record, so no health entry exists for a url that is
\* not in the roster.
C18_NoHealthForAbsent ==
    \A u \in DOMAIN health_status: u \in Roster

\* C19 (P4, probe outcome): after the probe of a backend that is still in
\* the roster completes, healthy(url) is true iff the response status was
\* exactly 200 (false for any other status, a transport error, a timeout),
\* whatever the value was before.
C19_ProbeOutcome ==
    /\ [][\A code \in ProbeCodes:
            ProbeGet(code) =>
               LET u == targets[pidx]
               IN IF lock = "free"
                  THEN u \in Roster =>
                         /\ u \in DOMAIN health_status'
                         /\ health_status'[u] = (code = 200)
                  ELSE /\ pok' = (code = 200)
                       /\ UNCHANGED health_status]_vars
    /\ [][ProbeUpdate =>
            LET u == targets[pidx]
            IN u \in Roster =>
                  (u \in DOMAIN health_status' /\ health_status'[u] = pok)]_vars

\* C19 witness: in its second cycle over an unchanged roster of two the
\* loop has stored false for the first backend and is probing the second,
\* which the first cycle found healthy
C19_Witness ==
    /\ cycles = 2
    /\ mutations = 0
    /\ restarts = 0
    /\ ppc = "probing"
    /\ Len(targets) = 2
    /\ pidx = 2
    /\ targets = backends
    /\ health_status[targets[1]] = FALSE
    /\ health_status[targets[2]] = TRUE

\* C20: a backend becomes eligible only through a probe of its current
\* registration: after add(url), a re-add included, healthy(url) stays
\* false until a probe issued after that add completes with status 200; the
\* result of a probe issued for an earlier registration of the url never
\* makes the new entry healthy.
C20_ProbeOfCurrentRegistration ==
    [][\A u \in Urls:
         (/\ pstale
          /\ ppc \in {"probing", "update"}
          /\ targets[pidx] = u
          /\ u \in DOMAIN health_status
          /\ ~health_status[u])
            => (u \in DOMAIN health_status' => ~health_status'[u])]_vars

\* C21 (load never fails startup): for every state of the file that is not
\* a well-shaped roster (absent, not JSON, JSON that is not an object, an
\* object without the key "backends", an object whose "backends" is not a
\* list of url strings) startup completes, the roster is empty and a
\* warning is emitted; startup completes for a well-shaped file too.
WellShapedFile(f) ==
    /\ f.exists
    /\ \E n \in 0..3: \E bs \in [1..n -> Urls]: f.text = json_dumps(bs)

C21_LoadNeverFails ==
    [][(phase = "init" /\ phase' # "init") =>
          /\ phase' = "running"
          /\ ~WellShapedFile(file) => (backends' = <<>> /\ load_warns(file))]_vars

\* C22 (save failure policy): when the write fails during add or remove,
\* the change of the Registry is kept, the process keeps serving, and the
\* management call still returns its normal response.  add_server and
\* remove_server have no except clause: the exception save_backends raises
\* ends the call (ManagementCallRaised).
ManagementCallRaised == lastsave = "failed"

C22_SaveFailurePolicy ==
    [][\A truncated \in BOOLEAN:
         SaveFail(truncated) =>
            /\ UNCHANGED <<backends, queue_counts, health_status>>
            /\ phase' = "running"
            /\ lock' = "free"
            /\ ~ManagementCallRaised']_vars

\* the pieces of Paths that begin with "/"
BeginsWithSlash(piece) == piece \in {"/servers", "/queue-lengths", "/x", "/api"}

\* the paths of management requests: /servers, /servers/..., /queue-lengths
ManagementPath(p) ==
    \/ p = <<"/servers">>
    \/ (Len(p) >= 2 /\ p[1] = "/servers" /\ BeginsWithSlash(p[2]))
    \/ p = <<"/queue-lengths">>

\* C23 (management requests are not proxy traffic): a request of path
\* /servers, /servers/... or /queue-lengths never selects a backend, is never
\* dispatched upstream and never releases; the step that handles it changes
\* no in_flight value and hands it to the routes whatever the health of the
\* backends; and an add or remove changes the in_flight of no backend that
\* is there before and after it.
C23_ManagementNotProxied ==
    /\ [](\A r \in Requests:
            ManagementPath(path[r]) =>
               /\ target[r] = "" /\ attempt[r] = 0 /\ released[r] = 0
               /\ sent[r] = <<>> /\ got[r] = 0 /\ failed[r] = 0
               /\ outcome[r] \in {"none", "call_next"})
    /\ [][\A r \in Requests:
            (ManagementPath(path[r]) /\ pc'[r] # pc[r]) =>
               /\ queue_counts' = queue_counts
               /\ outcome'[r] = "call_next"]_vars
    /\ [][mutations' # mutations =>
            \A u \in DOMAIN queue_counts \cap DOMAIN queue_counts':
               queue_counts'[u] = queue_counts[u]]_vars

\* C23 witness: a request of path /servers/x was handed to the routes while
\* the roster had backends and none of them was healthy, and a backend that
\* a proxied request would have been given is at 0
C23_Witness ==
    /\ \E r \in Requests:
          /\ path[r] = <<"/servers", "/x">>
          /\ pc[r] = "done"
          /\ outcome[r] = "call_next"
    /\ Roster # {}
    /\ HealthyRoster = {}
    /\ cycles >= 1

\* the url of the claim: target, path, "?" and the raw query
VerbatimUrl(t, p, q) == <<t>> \o p \o <<"?">> \o q

\* C24 (upstream url): the url given to the upstream call of every attempt
\* of a proxied request is target + path + "?" + raw query, the query
\* verbatim, for every path and every query, the empty one included.
C24_UpstreamUrl ==
    \A r \in Requests:
       pc[r] = "dispatching" => sent[r] = VerbatimUrl(target[r], path[r], query[r])

\* the header fields of the claim: the upstream fields whose name is not
\* Content-Length, Transfer-Encoding or Connection in any case
RelayedFields(fields) ==
    SelectSeq(fields, LAMBDA f:
        Lower(f.name) \notin {"content-length", "transfer-encoding", "connection"})

\* the items are the fields, one by one, names compared without case
SameFields(items, fields) ==
    /\ Len(items) = Len(fields)
    /\ \A i \in 1..Len(items):
          /\ Lower(items[i].name) = Lower(fields[i].name)
          /\ items[i].value = fields[i].value

\* C25 (response header filtering): the headers of the response returned
\* are the upstream header fields minus Content-Length, Transfer-Encoding and
\* Connection (names compared without case), each with its value unchanged,
\* and its status code is the upstream status code.
C25_HeaderFiltering ==
    \A r \in Requests:
       outcome[r] = "response" =>
          /\ SameFields(filtered_headers[r], RelayedFields(resp_headers[r]))
          /\ status[r] = got[r]

\* C26 (lock discipline): no task holds the lock while it dispatches
\* upstream, waits for upstream headers, streams a body, probes or sleeps;
\* in the request path the lock is held only inside select and release.
\* The only holder of the lock in a state is a management call awaiting
\* save_backends; a request or prober step finds the lock as it leaves it,
\* and it writes the Registry only when it found the lock free.
C26_LockDiscipline ==
    /\ [](lock = "free" \/ (lock = "mgmt" /\ mpc = "saving"))
    /\ [][(pc' # pc \/ ppc' # ppc) => lock' = lock]_vars
    /\ [][((pc' # pc \/ ppc' # ppc) /\
           (queue_counts' # queue_counts \/ health_status' # health_status))
              => lock = "free"]_vars

\* C26 witness: while a management call holds the lock in its save, one
\* request is in a retry sleep, another waits for the lock in its finally
\* and the prober waits for the lock with a probe result
C26_Witness ==
    /\ lock = "mgmt"
    /\ ppc = "update"
    /\ \E r, q \in Requests: pc[r] = "sleeping" /\ pc[q] = "finally"

\* C27 (atomic select): the scan for the minimum and the increment are one
\* critical section, so when k requests arrive at k healthy backends whose
\* in_flight is 0 and none completes, each backend is selected once, in
\* insertion order: the select that finds the first j healthy backends at 1
\* and the others at 0 takes backend j+1 and leaves it at 1.
C27_AtomicSelect ==
    [][\A r \in Requests:
         (pc[r] = "received" /\ pc'[r] = "dispatching") =>
            LET h == SelectSeq(backends, LAMBDA u: IsHealthy(u))
            IN \A j \in 0..(Len(h) - 1):
                  (/\ \A i \in 1..j: queue_counts[h[i]] = 1
                   /\ \A i \in (j + 1)..Len(h): queue_counts[h[i]] = 0)
                     => (target'[r] = h[j + 1] /\ queue_counts'[h[j + 1]] = 1)]_vars

\* C27 witness: two requests arrived at two healthy backends at 0; the first
\* was given the first backend and the second the second
C27_Witness ==
    /\ mutations = 0
    /\ Len(backends) = 2
    /\ HealthyRoster = Roster
    /\ pc[1] = "dispatching" /\ attempt[1] = 1 /\ released[1] = 0
    /\ pc[2] = "dispatching" /\ attempt[2] = 1 /\ released[2] = 0
    /\ target[1] = backends[1]
    /\ target[2] = backends[2]

\* the entries of the list bs that are u
Occurrences(bs, u) == Cardinality({i \in 1..Len(bs) : bs[i] = u})

\* C28 (serialized mutations and saves): no two saves are in progress at
\* the same time, a save in progress holds the lock, a call changes the
\* roster only when no other call is between its change and the end of its
\* save, a call that adds an absent url registers it and no later call adds
\* an entry for a registered url, and once all calls have returned the file
\* holds the roster list.
C28_SerializedMutations ==
    /\ [](saves <= 1)
    /\ [](saves = 1 => lock = "mgmt")
    /\ [][backends' # backends => (saves = 0 \/ restarts' # restarts)]_vars
    /\ [][\A u \in Urls:
            (mutations' # mutations /\ Occurrences(backends, u) = 0
                                    /\ Occurrences(backends', u) > 0)
               => (Occurrences(backends', u) = 1 /\ u \in DOMAIN queue_counts')]_vars
    /\ [][\A u \in DOMAIN queue_counts:
            mutations' # mutations
               => Occurrences(backends', u) <= Occurrences(backends, u)]_vars
    /\ []((phase = "running" /\ saves = 0) => load_backends(file) = backends)

\* C28 witness: a second call that changed the roster is in its save, the
\* file still holding the roster the first call wrote
C28_Witness ==
    /\ saves = 1
    /\ mutations = 2
    /\ lastsave = "ok"
    /\ load_backends(file) # backends

\* C29 (durability re-established): after a save has failed, once a later
\* add or remove that changes the roster has saved with success, the file
\* again holds the roster list.
C29_DurabilityReestablished ==
    (mpc = "idle" /\ lastsave = "ok-after-failure") =>
        /\ file = JsonFile(backends)
        /\ load_backends(file) = backends

\* C29 witness: a save failed after truncating the file, the next call
\* saved, and the file holds the roster of two again
C29_Witness ==
    /\ mpc = "idle"
    /\ lastsave = "ok-after-failure"
    /\ mutations = 2
    /\ Len(backends) = 2
    /\ file.text = json_dumps(backends)

\* C30 (separation of writers): a step of the prober changes no in_flight
\* value, a step of the forwarder changes no healthy flag, and the
\* in_flight of a backend that exists before and after a step changes only
\* by the forwarder's +1 at select and -1 at release.
C30_SeparationOfWriters ==
    /\ [][(ppc # "unstarted" /\ (ppc' # ppc \/ pidx' # pidx \/ cycles' # cycles))
              => queue_counts' = queue_counts]_vars
    /\ [][pc' # pc => health_status' = health_status]_vars
    /\ [][\A u \in DOMAIN queue_counts \cap DOMAIN queue_counts':
            queue_counts'[u] # queue_counts[u] =>
               \E r \in Requests:
                  \/ /\ pc[r] = "received" /\ pc'[r] = "dispatching"
                     /\ target'[r] = u
                     /\ queue_counts'[u] = queue_counts[u] + 1
                  \/ /\ pc[r] \in {"dispatching", "sleeping", "finally"}
                     /\ target[r] = u
                     /\ released'[r] = released[r] + 1
                     /\ queue_counts'[u] = queue_counts[u] - 1]_vars

\* C30 witness: the prober has set a flag and a request has selected and
\* released: the healthy backend is back at 0 and the request is streaming
C30_Witness ==
    /\ cycles = 1
    /\ \E r \in Requests:
          /\ pc[r] = "streaming"
          /\ released[r] = 1
          /\ IsHealthy(target[r])
          /\ queue_counts[target[r]] = 0

\* C34 (a removed backend is never selected): a remove that deletes url
\* takes its in_flight record away, only an add of url (or the startup load)
\* brings the record back, and a select returns only a url that is in the
\* roster list and has its record; so from the return of remove(url) until
\* url is added again no select returns url, whatever the prober writes and
\* whatever requests are still in flight on url.
C34_RemovedNeverSelected ==
    /\ [][\A u \in Urls:
            (RemoveServer(u) /\ mutations' # mutations)
               => u \notin DOMAIN queue_counts']_vars
    /\ [][\A u \in Urls:
            (u \notin DOMAIN queue_counts /\ u \in DOMAIN queue_counts')
               => (AddServer(u) \/ phase = "init" \/ restarts' # restarts)]_vars
    /\ [][\A r \in Requests:
            (pc[r] = "received" /\ pc'[r] = "dispatching")
               => (target'[r] \in Roster /\ target'[r] \in DOMAIN queue_counts)]_vars

\* C34 witness: a request is in flight on a url that has been removed, a
\* probe of that url answered 200 after the removal (its flag is true again),
\* and the other request has selected: it got 503 from the empty roster
C34_Witness ==
    \E u \in Urls:
       /\ u \notin Roster
       /\ u \notin DOMAIN queue_counts
       /\ IsHealthy(u)
       /\ pc[1] = "dispatching" /\ target[1] = u
       /\ pc[2] = "done" /\ outcome[2] = "503"

\* C35 (select fails only with NoHealthyBackend): every url that is in the
\* roster list and has a true health flag has an in_flight record, so the
\* min over the healthy backends is defined, and no select ends in a
\* KeyError.
C35_SelectDefined ==
    /\ \A u \in Roster: IsHealthy(u) => u \in DOMAIN queue_counts
    /\ \A r \in Requests: (outcome[r] = "KeyError" => attempt[r] >= 1)

\* C33 (shutdown ordering): from task.cancel() on no health flag changes
\* (a probe answer that had arrived and not been stored is dropped), the
\* HTTP client is closed only when the health-check task has ended, and the
\* shutdown changes neither the roster nor the file.
C33_ShutdownOrdering ==
    /\ [][(phase' \in {"stopping", "stopped"})
             => UNCHANGED <<health_status, backends, queue_counts, file>>]_vars
    /\ [](phase = "stopped" => ppc = "cancelled")
    /\ [][(phase \in {"stopping", "stopped"}) => (phase' \in {"stopping", "stopped"})]_vars

\* C33 witness: the task has been cancelled while it held the 200 of a probe
\* that it had not stored yet: the backend is still unhealthy
C33_Witness ==
    /\ phase = "stopping"
    /\ ppc = "update"
    /\ pok = TRUE
    /\ targets[pidx] \in Roster
    /\ ~IsHealthy(targets[pidx])

\* C37 (persisted file frame): the file changes only in the save of an add
\* or remove, and a save is begun only by an add or remove that changes the
\* roster list; the startup load, the select, the release, the health
\* updates, requests of any outcome and the shutdown leave the file alone.
C37_FileFrame ==
    /\ [][file' # file => (mpc = "saving" /\ mpc' = "idle")]_vars
    /\ [][(mpc' = "saving" /\ mpc # "saving")
             => /\ backends' # backends
                /\ \E u \in Urls:
                      \/ AddServer(u) /\ backends' = Append(backends, u)
                      \/ RemoveServer(u) /\ u \in Roster]_vars

\* C37 witness: the process was shut down after serving a request, probing
\* and an add whose save raised at the open, and the file is still absent
C37_Witness ==
    /\ phase = "stopped"
    /\ ~file.exists
    /\ mutations = 1
    /\ lastsave = "failed"
    /\ cycles >= 1
    /\ outcome[1] # "none"

\* C38 (save atomicity across a crash): when the process stops between
\* the open and the end of the write of a save, the file holds the complete
\* previous roster or the complete new one, and the restart does not load
\* an empty roster in place of a non-empty one.
C38_SaveAtomicity ==
    [][\A stage \in CrashStages:
         CrashInSave(stage) =>
            /\ (file' = file \/ file' = JsonFile(backends))
            /\ (backends' = <<>> => (backends = <<>> \/ load_backends(file) = <<>>))]_vars

\* C31 (request termination): a proxied request makes at most 3 attempts
\* and sleeps only after a failed attempt that is not the last one (so at
\* most twice); unless it is cancelled it ends with the upstream response,
\* 502 or 503; and under fair scheduling it does end.
C31_RequestTermination ==
    /\ [](\A r \in LiveRequests:
            /\ attempt[r] <= max_retries
            /\ failed[r] <= max_retries
            /\ pc[r] = "sleeping" => (attempt[r] < max_retries /\ failed[r] = attempt[r])
            /\ outcome[r] \in {"none", "response", "502", "503", "raised", "cancelled"})
    /\ \A r \in LiveRequests: (pc[r] = "received") ~> (outcome[r] # "none")

\* C36 (lock progress): the lock is held only by an add or remove that is
\* in its save; a save that raises releases it, and the cancellation of a
\* task that waits for it leaves it as it is; so under fair scheduling a
\* held lock becomes free and every task that waits for it goes on.
C36_LockProgress ==
    /\ [](lock = "free" \/ (lock = "mgmt" /\ mpc = "saving"))
    /\ [][\A truncated \in BOOLEAN: SaveFail(truncated) => lock' = "free"]_vars
    /\ [][\A r \in LiveRequests: CancelWaiting(r) => lock' = lock]_vars
    /\ (lock = "mgmt") ~> (lock = "free")
    /\ \A r \in LiveRequests: (pc[r] = "finally") ~> (pc[r] # "finally")
    /\ (ppc = "snapshot") ~> (ppc # "snapshot")
    /\ (ppc = "update") ~> (ppc # "update")

\* C36 witness: a save has raised and the lock was released: a second call
\* holds it now, the request waits for it in its finally and the
\* health-check loop waits for it with a probe result
C36_Witness ==
    /\ lastsave = "failed"
    /\ lock = "mgmt"
    /\ pc[1] = "finally"
    /\ ppc = "update"

\* a probe of u is answered
ProbeAnswered(u) ==
    /\ ppc = "probing"
    /\ targets[pidx] = u
    /\ \E code \in ProbeCodes: ProbeGet(code)

\* C32 (health liveness): under fair scheduling, a backend that stays in
\* the roster and whose probes all answer 200 from some point on is healthy
\* from some point on; one whose probes all fail from some point on is
\* unhealthy from some point on, and no select returns an unhealthy backend;
\* and no probe stalls the loop: every probe ends and every pass of the loop
\* reaches its sleep.
C32_HealthLiveness ==
    /\ \A u \in Urls:
          (<>[](u \in Roster) /\ <>[][ProbeAnswered(u) => ProbeGet(200)]_vars)
             => <>[]IsHealthy(u)
    /\ \A u \in Urls:
          (<>[](u \in Roster) /\ <>[][ProbeAnswered(u) => ~ProbeGet(200)]_vars)
             => <>[](~IsHealthy(u))
    /\ [][\A r \in Requests:
            (pc[r] = "received" /\ pc'[r] = "dispatching") => IsHealthy(target'[r])]_vars
    /\ \A i \in 1..3:
          (ppc = "probing" /\ pidx = i) ~> ~(ppc = "probing" /\ pidx = i)
    /\ []<>(ppc = "sleeping")

\* C32 witness: after the counted passes of the loop, of two backends that
\* stayed in the roster one is healthy and the other is not, and the request
\* was given the healthy one
C32_Witness ==
    /\ cycles = MaxProbeCycles
    /\ mutations = 0
    /\ backends = <<"a", "b">>
    /\ ~IsHealthy("a")
    /\ IsHealthy("b")
    /\ target[1] = "b"
    /\ ppc = "sleeping"

====
